---- MODULE Spec2Model ----
(***************************************************************************)
(* The archetype ECS of ecs/src: World (world.rs) over Archetype           *)
(* (archetype.rs), EntityStore (entity.rs), ComponentBundle / TypeBundle   *)
(* (bundle.rs) and the component columns (component.rs).                   *)
(*                                                                         *)
(* Indices (archetype ids, rows, column indices, entity indices) keep the  *)
(* 0-based values of the Rust code; a Vec is a TLA+ sequence, so element i *)
(* of a Vec v is v[i + 1].  A HashMap is a function whose DOMAIN is its    *)
(* key set.  An Option is a sequence of length 0 (None) or 1 (Some).       *)
(* A panic (failed assert!, expect, unwrap or slice index) ends the        *)
(* program: the state keeps what had been written before the panic and no  *)
(* further call is made.                                                   *)
(***************************************************************************)
EXTENDS Integers, Sequences, FiniteSets, TLC

\* ---------------------------------------------------------------- bounds
\* component types a caller can name (TypeId values)
Types == {"A", "B"}
\* component payloads are 1..MaxVal
MaxVal == 2
\* a ComponentBundle is built by at most MaxBundle insert calls
MaxBundle == 2
\* at most MaxEntities spawn calls are made
MaxEntities == 2
\* EntityIds handed to kill / migrate have a generation in 0..MaxGen
MaxGen == 1
\* a query row shape has 1..MaxFields fields
MaxFields == 2
\* the u32 fields (EntityId.id, generation, EntityStore.count) are modelled
\* WordBits wide instead of 32, so that their largest value can be reached
WordBits == 2
\* EntityStore on its own: free is called while the freed list is shorter
\* than MaxFreed
MaxFreed == 3
\* ComponentStores on their own: push and migrate are called while the column
\* that grows is shorter than MaxRows
MaxRows == 3
\* u32::MAX at that width
U32Max == 2 ^ WordBits - 1

Vals == 1..MaxVal

\* ---------------------------------------------------------------- helpers
None == <<>>
Some(x) == <<x>>

EmptyMap == [k \in {} |-> 0]
MapPut(m, k, v) == [x \in (DOMAIN m) \cup {k} |-> IF x = k THEN v ELSE m[x]]
MapRemove(m, k) == [x \in (DOMAIN m) \ {k} |-> m[x]]
MapValues(m) == {m[k] : k \in DOMAIN m}

\* all orders in which the elements of a finite set can be listed
Orders(S) ==
  {s \in [1..Cardinality(S) -> S] : \A x \in S : \E i \in 1..Cardinality(S) : s[i] = x}

\* Vec::swap_remove(row), for row < len: the last element takes the place of row
VecSwapRemove(v, row) ==
  [i \in 1..(Len(v) - 1) |-> IF i = row + 1 THEN v[Len(v)] ELSE v[i]]

\* ---------------------------------------------------------------- entity.rs
EntityId(id, generation) == [id |-> id, generation |-> generation]
Location(archetype, row) == [archetype |-> archetype, row |-> row]
\* Entity::default()
EntityDefault == [generation |-> 0, location |-> None]
\* EntityStore::default()
EntityStoreDefault == [entities |-> <<>>, freed |-> <<>>, count |-> 0]

\* entity_status without the check_generation step
entity_status_NoGenCheck(store, id) ==
  IF id.id >= Len(store.entities)
    THEN [ok |-> FALSE, err |-> "NotFound"]
  ELSE [ok |-> TRUE, val |-> store.entities[id.id + 1].location]

\* Result<Option<Location>, EntityError>
entity_status(store, id) ==
  IF id.id >= Len(store.entities)
    THEN [ok |-> FALSE, err |-> "NotFound"]
  ELSE IF store.entities[id.id + 1].generation # id.generation
    THEN [ok |-> FALSE, err |-> "WrongGen"]
  ELSE [ok |-> TRUE, val |-> store.entities[id.id + 1].location]

\* Result<&mut Entity, EntityError>: the same two checks as entity_status
get_mut_entity(store, id) ==
  IF id.id >= Len(store.entities)
    THEN [ok |-> FALSE, err |-> "NotFound"]
  ELSE IF store.entities[id.id + 1].generation # id.generation
    THEN [ok |-> FALSE, err |-> "WrongGen"]
  ELSE [ok |-> TRUE, val |-> store.entities[id.id + 1]]

\* Result<EntityId, EntityError> and the store after the call
get_new_id(store) ==
  IF Len(store.freed) > 0
    THEN LET id == store.freed[Len(store.freed)]
         IN [ok |-> TRUE,
             id |-> EntityId(id, store.entities[id + 1].generation),
             store |-> [store EXCEPT !.freed = SubSeq(store.freed, 1, Len(store.freed) - 1)]]
  ELSE IF store.count < U32Max
    THEN [ok |-> TRUE,
          id |-> EntityId(store.count, 0),
          store |-> [store EXCEPT !.count = store.count + 1,
                                  !.entities = Append(store.entities, EntityDefault)]]
  ELSE [ok |-> FALSE, err |-> "TooManyEntities", store |-> store]

\* Result<Location, EntityError> and the store after the call
\* (generation += 1 on a u32: the increment wraps modulo 2^32)
free(store, id) ==
  LET e == get_mut_entity(store, id)
  IN IF ~e.ok THEN [ok |-> FALSE, err |-> e.err, store |-> store]
     ELSE IF e.val.location = None
       THEN [ok |-> FALSE, err |-> "AlreadyFreed", store |-> store]
     ELSE [ok |-> TRUE,
           loc |-> e.val.location[1],
           store |-> [store EXCEPT
                        !.entities[id.id + 1] =
                           [generation |-> (e.val.generation + 1) % (U32Max + 1),
                            location |-> None],
                        !.freed = Append(store.freed, id.id)]]

\* Result<Range<u32>, EntityError> and the store after the call: checked_add
\* fails when old_count + count does not fit in a u32
seed_new_ids(store, count) ==
  IF store.count + count > U32Max
    THEN [ok |-> FALSE, err |-> "TooManyEntities", store |-> store]
  ELSE [ok |-> TRUE,
        first |-> store.count,
        store |-> [store EXCEPT
                     !.count = store.count + count,
                     !.entities = store.entities \o [i \in 1..count |-> EntityDefault]]]

\* the ids get_new_ids takes from the end of the freed list, in list order
DrainedIds(store, free_count) ==
  [i \in 1..free_count |->
     EntityId(store.freed[Len(store.freed) - free_count + i],
              store.entities[store.freed[Len(store.freed) - free_count + i] + 1].generation)]

\* the store once the drain has taken free_count indices off the freed list
Drained(store, free_count) ==
  [store EXCEPT !.freed = SubSeq(store.freed, 1, Len(store.freed) - free_count)]

\* get_new_ids after the drain: the ? on seed_new_ids returns the error with
\* the freed list already drained
SeededIds(ids, seeded, extra) ==
  IF ~seeded.ok THEN [ok |-> FALSE, err |-> seeded.err, store |-> seeded.store]
  ELSE [ok |-> TRUE,
        ids |-> ids \o [i \in 1..extra |-> EntityId(seeded.first + i - 1, 0)],
        store |-> seeded.store]

\* get_new_ids with free_count = count.min(self.freed.len())
GetNewIdsWith(store, count, free_count) ==
  IF count > free_count
    THEN SeededIds(DrainedIds(store, free_count),
                   seed_new_ids(Drained(store, free_count), count - free_count),
                   count - free_count)
  ELSE [ok |-> TRUE, ids |-> DrainedIds(store, free_count),
        store |-> Drained(store, free_count)]

\* Result<Vec<EntityId>, EntityError> and the store after the call
get_new_ids(store, count) ==
  GetNewIdsWith(store, count,
                IF count < Len(store.freed) THEN count ELSE Len(store.freed))

\* free as the build compiles generation += 1: with overflow checks (debug)
\* the increment of a generation at u32::MAX panics after location was set to
\* None; without them (release) it wraps, which is what free computes
free_build(store, id, overflow_checks) ==
  IF /\ overflow_checks
     /\ get_mut_entity(store, id).ok
     /\ get_mut_entity(store, id).val.location # None
     /\ get_mut_entity(store, id).val.generation = U32Max
    THEN [ok |-> FALSE, panic |-> TRUE,
          store |-> [store EXCEPT !.entities[id.id + 1].location = None]]
  ELSE [ok |-> free(store, id).ok, panic |-> FALSE, store |-> free(store, id).store]

\* get_mut_entity(id).unwrap(): a panic when the id does not resolve
set_location(store, id, location) ==
  LET e == get_mut_entity(store, id)
  IN IF ~e.ok THEN [panic |-> TRUE, store |-> store, old |-> None]
     ELSE [panic |-> FALSE,
           store |-> [store EXCEPT !.entities[id.id + 1].location = Some(location)],
           old |-> e.val.location]

\* ---------------------------------------------------------------- bundle.rs
ComponentBox(ty, val) == [ty |-> ty, val |-> val]
Comps == {ComponentBox(t, v) : t \in Types, v \in Vals}

\* ComponentBundle::default()
BundleDefault == [index |-> EmptyMap, components |-> <<>>]

\* ComponentBundle::insert / insert_box
insert(bundle, comp) ==
  [index |-> MapPut(bundle.index, comp.ty, Cardinality(DOMAIN bundle.index)),
   components |-> Append(bundle.components, comp)]

\* ComponentBundle::types / Archetype::types: the key set of the index
types(x) == DOMAIN x.index

\* TypeBundle::add_type / remove_type / contains (BTreeSet operations)
add_type(tb, t) == tb \cup {t}
remove_type(tb, t) == tb \ {t}
contains(tb, other) == other \subseteq tb

RECURSIVE InsertAll(_, _)
InsertAll(bundle, comps) ==
  IF comps = <<>> THEN bundle
  ELSE InsertAll(insert(bundle, Head(comps)), Tail(comps))

CompSeqs == UNION {[1..n -> Comps] : n \in 0..MaxBundle}
\* every bundle a caller can build: default() followed by insert calls
Bundles == {InsertAll(BundleDefault, s) : s \in CompSeqs}

\* ComponentBundle::remove: Result<ComponentBox, StoreError> and the bundle after
\* the call; .last().expect(..) panics on an empty bundle
bundle_remove(bundle, type_id) ==
  IF bundle.components = <<>>
    THEN [panic |-> TRUE, ok |-> FALSE, bundle |-> bundle]
  ELSE IF type_id \notin DOMAIN bundle.index
    THEN [panic |-> FALSE, ok |-> FALSE, bundle |-> bundle]
  ELSE LET moved == bundle.components[Len(bundle.components)].ty
           idx == bundle.index[type_id]
       IN IF idx >= Len(bundle.components)
            THEN [panic |-> TRUE, ok |-> FALSE,
                  bundle |-> [bundle EXCEPT !.index = MapPut(MapRemove(@, type_id), moved, idx)]]
          ELSE [panic |-> FALSE, ok |-> TRUE,
                comp |-> bundle.components[idx + 1],
                bundle |-> [index |-> MapPut(MapRemove(bundle.index, type_id), moved, idx),
                            components |-> VecSwapRemove(bundle.components, idx)]]

\* ---------------------------------------------------------------- component.rs
\* a column: the component type of its Vec<T> and the Vec
\* ComponentStore::new / create_store: a column holding the first component
ComponentStore(comp) == [ty |-> comp.ty, vec |-> <<comp.val>>]

\* ComponentVec::push: cast_inner::<T>() fails on another component type
ColumnPush(col, comp) ==
  IF comp.ty = col.ty
    THEN [ok |-> TRUE, col |-> [col EXCEPT !.vec = Append(@, comp.val)]]
  ELSE [ok |-> FALSE, col |-> col]

\* ComponentVec::swap_remove: Vec::swap_remove panics when row >= len
ColumnSwapRemove(col, row) ==
  IF row >= Len(col.vec)
    THEN [panic |-> TRUE, col |-> col]
  ELSE [panic |-> FALSE,
        col |-> [col EXCEPT !.vec = VecSwapRemove(@, row)],
        comp |-> ComponentBox(col.ty, col.vec[row + 1])]

\* migrate taking the component out with Vec::remove, which keeps the order
ColumnMigrate_ShiftRemove(source, row, target) ==
  IF row >= Len(source.vec)
    THEN [panic |-> TRUE, ok |-> FALSE, source |-> source, target |-> target]
  ELSE IF target.ty # source.ty
    THEN [panic |-> FALSE, ok |-> FALSE, target |-> target,
          source |-> [source EXCEPT !.vec = SubSeq(@, 1, row) \o SubSeq(@, row + 2, Len(@))]]
  ELSE [panic |-> FALSE, ok |-> TRUE,
        source |-> [source EXCEPT !.vec = SubSeq(@, 1, row) \o SubSeq(@, row + 2, Len(@))],
        target |-> [target EXCEPT !.vec = Append(@, source.vec[row + 1])]]

\* ComponentVec::migrate: the component leaves the source before the target is
\* downcast, so a target of another type returns Err after the removal
ColumnMigrate(source, row, target) ==
  LET taken == ColumnSwapRemove(source, row)
  IN IF taken.panic
       THEN [panic |-> TRUE, ok |-> FALSE, source |-> source, target |-> target]
     ELSE IF target.ty # source.ty
       THEN [panic |-> FALSE, ok |-> FALSE, source |-> taken.col, target |-> target]
     ELSE [panic |-> FALSE, ok |-> TRUE, source |-> taken.col,
           target |-> [target EXCEPT !.vec = Append(@, taken.comp.val)]]

\* ---------------------------------------------------------------- archetype.rs
\* Archetype::default()
ArchetypeDefault ==
  [index |-> EmptyMap, storage |-> <<>>, entities |-> <<>>, edges |-> EmptyMap]

\* Archetype::new: one column per component of the bundle, in bundle order;
\* index.insert(type, idx) keeps the last idx inserted for a type
ArchetypeNew(bundle, entity_id) ==
  LET cs == bundle.components
      last(t) == CHOOSE i \in DOMAIN cs :
                   /\ cs[i].ty = t
                   /\ \A j \in DOMAIN cs : cs[j].ty = t => j <= i
  IN [index |-> [t \in {cs[i].ty : i \in DOMAIN cs} |-> last(t) - 1],
      storage |-> [i \in DOMAIN cs |-> ComponentStore(cs[i])],
      entities |-> <<entity_id>>,
      edges |-> EmptyMap]

\* Archetype::get_storage_mut: Option of the column index of a type
get_storage_mut(at, type_id) ==
  IF type_id \in DOMAIN at.index THEN Some(at.index[type_id]) ELSE None

\* the loop of Archetype::add: the two expect calls panic
RECURSIVE AddComps(_, _)
AddComps(at, comps) ==
  IF comps = <<>> THEN [panic |-> FALSE, at |-> at]
  ELSE LET comp == Head(comps)
           s == get_storage_mut(at, comp.ty)
       IN IF s = None THEN [panic |-> TRUE, at |-> at]
          ELSE LET p == ColumnPush(at.storage[s[1] + 1], comp)
               IN IF ~p.ok THEN [panic |-> TRUE, at |-> at]
                  ELSE AddComps([at EXCEPT !.storage[s[1] + 1] = p.col], Tail(comps))

\* the end of Archetype::add, after the loop
AddEntity(r, entity_id, row) ==
  IF r.panic THEN [panic |-> TRUE, at |-> r.at, row |-> row]
  ELSE [panic |-> FALSE,
        at |-> [r.at EXCEPT !.entities = Append(@, entity_id)],
        row |-> row]

\* add with the row taken after the push instead of before it
add_RowAfterPush(at, bundle, entity_id) ==
  AddEntity(AddComps(at, bundle.components), entity_id, Len(at.entities) + 1)

\* Archetype::add: returns the row, the length of entities before the call
add(at, bundle, entity_id) ==
  AddEntity(AddComps(at, bundle.components), entity_id, Len(at.entities))

\* Archetype::get_last_entity: self.entities[self.entities.len()], a slice
\* index that panics unless it is below the length
get_last_entity(at) ==
  LET i == Len(at.entities)
  IN IF i < Len(at.entities)
       THEN [panic |-> FALSE, entity |-> at.entities[i + 1]]
     ELSE [panic |-> TRUE]

\* the order in which a HashMap iteration visits the keys of a map, taken from
\* an order of all component types
KeyOrder(torder, m) == SelectSeq(torder, LAMBDA t : t \in DOMAIN m)

\* the loop of Archetype::remove: swap_remove(row) on every column that
\* index.values() names, visited in the order of the keys given
RECURSIVE RemoveCols(_, _, _)
RemoveCols(at, row, order) ==
  IF order = <<>> THEN [panic |-> FALSE, at |-> at]
  ELSE LET idx == at.index[Head(order)]
           r == ColumnSwapRemove(at.storage[idx + 1], row)
       IN IF r.panic THEN [panic |-> TRUE, at |-> at]
          ELSE RemoveCols([at EXCEPT !.storage[idx + 1] = r.col], row, Tail(order))

\* the end of Archetype::remove, after the loop: entities.swap_remove(row)
RemoveEntity(r, row, entity) ==
  IF r.panic \/ row >= Len(r.at.entities)
    THEN [panic |-> TRUE, at |-> r.at]
  ELSE [panic |-> FALSE,
        at |-> [r.at EXCEPT !.entities = VecSwapRemove(@, row)],
        entity |-> entity]

\* Archetype::remove
remove(at, row, torder) ==
  IF get_last_entity(at).panic THEN [panic |-> TRUE, at |-> at]
  ELSE RemoveEntity(RemoveCols(at, row, KeyOrder(torder, at.index)), row,
                    get_last_entity(at).entity)

\* one step of the column loop: source.migrate(row, target).expect(..)
MigrateCol(self, target, row, s, d, m) ==
  [panic |-> m.panic \/ ~m.ok,
   self |-> [self EXCEPT !.storage[s + 1] = m.source],
   target |-> [target EXCEPT !.storage[d + 1] = m.target]]

\* the column loop of migrate_add (over self.index) and of migrate_remove (over
\* target.index): the column of each type moves its row to the target's column
\* of that type; a type without a column on the other side, or columns of
\* different types, panic in expect
RECURSIVE MigrateCols(_, _, _, _)
MigrateCols(self, target, row, order) ==
  IF order = <<>> THEN [panic |-> FALSE, self |-> self, target |-> target]
  ELSE IF get_storage_mut(self, Head(order)) = None
          \/ get_storage_mut(target, Head(order)) = None
    THEN [panic |-> TRUE, self |-> self, target |-> target]
  ELSE LET s == self.index[Head(order)]
           d == target.index[Head(order)]
           c == MigrateCol(self, target, row, s, d,
                           ColumnMigrate(self.storage[s + 1], row, target.storage[d + 1]))
       IN IF c.panic THEN c
          ELSE MigrateCols(c.self, c.target, row, Tail(order))

\* the end of migrate_add, after the loop: the added component is pushed
MigrateAddPush(m, comp, moved, target_row) ==
  IF m.panic \/ get_storage_mut(m.target, comp.ty) = None
    THEN [panic |-> TRUE, self |-> m.self, target |-> m.target]
  ELSE LET d == m.target.index[comp.ty]
           p == ColumnPush(m.target.storage[d + 1], comp)
       IN IF ~p.ok
            THEN [panic |-> TRUE, self |-> m.self, target |-> m.target]
          ELSE [panic |-> FALSE, self |-> m.self,
                target |-> [m.target EXCEPT !.storage[d + 1] = p.col],
                moved |-> moved, row |-> target_row]

\* Archetype::migrate_add
migrate_add(self, row, target, comp, torder) ==
  IF get_last_entity(self).panic \/ row >= Len(self.entities)
    THEN [panic |-> TRUE, self |-> self, target |-> target]
  ELSE MigrateAddPush(
         MigrateCols([self EXCEPT !.entities = VecSwapRemove(@, row)],
                     [target EXCEPT !.entities = Append(@, self.entities[row + 1])],
                     row, KeyOrder(torder, self.index)),
         comp, get_last_entity(self).entity, Len(target.entities))

\* the end of migrate_remove, after the loop: the removed type's column drops
\* its row
MigrateRemoveDrop(m, row, type_id, moved, target_row) ==
  IF m.panic \/ get_storage_mut(m.self, type_id) = None
    THEN [panic |-> TRUE, self |-> m.self, target |-> m.target]
  ELSE LET s == m.self.index[type_id]
           r == ColumnSwapRemove(m.self.storage[s + 1], row)
       IN IF r.panic
            THEN [panic |-> TRUE, self |-> m.self, target |-> m.target]
          ELSE [panic |-> FALSE,
                self |-> [m.self EXCEPT !.storage[s + 1] = r.col],
                target |-> m.target,
                moved |-> moved, row |-> target_row]

\* Archetype::migrate_remove
migrate_remove(self, row, target, type_id, torder) ==
  IF get_last_entity(self).panic \/ row >= Len(self.entities)
    THEN [panic |-> TRUE, self |-> self, target |-> target]
  ELSE MigrateRemoveDrop(
         MigrateCols([self EXCEPT !.entities = VecSwapRemove(@, row)],
                     [target EXCEPT !.entities = Append(@, self.entities[row + 1])],
                     row, KeyOrder(torder, target.index)),
         row, type_id, get_last_entity(self).entity, Len(target.entities))

\* the loop of migrate_to_bundle: each column named by index.values() gives its
\* row to the bundle
RECURSIVE TakeCols(_, _, _, _)
TakeCols(at, row, order, bundle) ==
  IF order = <<>> THEN [panic |-> FALSE, at |-> at, bundle |-> bundle]
  ELSE LET idx == at.index[Head(order)]
           r == ColumnSwapRemove(at.storage[idx + 1], row)
       IN IF r.panic THEN [panic |-> TRUE, at |-> at, bundle |-> bundle]
          ELSE TakeCols([at EXCEPT !.storage[idx + 1] = r.col], row, Tail(order),
                        insert(bundle, r.comp))

\* the end of migrate_to_bundle, after the loop: get_last_entity, then
\* entities.swap_remove(row)
TakeEntity(t, row) ==
  IF t.panic \/ get_last_entity(t.at).panic \/ row >= Len(t.at.entities)
    THEN [panic |-> TRUE, at |-> t.at]
  ELSE [panic |-> FALSE,
        at |-> [t.at EXCEPT !.entities = VecSwapRemove(@, row)],
        entity |-> get_last_entity(t.at).entity,
        bundle |-> t.bundle]

\* Archetype::migrate_to_bundle: the columns are emptied of the row before
\* get_last_entity is called
migrate_to_bundle(at, row, torder) ==
  TakeEntity(TakeCols(at, row, KeyOrder(torder, at.index), BundleDefault), row)

\* ---------------------------------------------------------------- world.rs
\* Archetype::has_type (called by World::migrate)
has_type(at, type_id) == type_id \in DOMAIN at.index

\* Migration::Add(ComponentBox) | Migration::Remove(TypeId)
MigrationAdd(comp) == [kind |-> "Add", comp |-> comp]
MigrationRemove(type_id) == [kind |-> "Remove", ty |-> type_id]
is_add(op) == op.kind = "Add"
Migrations == {MigrationAdd(c) : c \in Comps} \cup {MigrationRemove(t) : t \in Types}

\* Archetype::migrate(target, row, op) (called by World::migrate): the row moves
\* to the target by migrate_add or migrate_remove
archetype_migrate(self, target, row, op, torder) ==
  IF is_add(op) THEN migrate_add(self, row, target, op.comp, torder)
  ELSE migrate_remove(self, row, target, op.ty, torder)

\* the bundle of migrate_to_bundle with the added component, or without the
\* removed one
BundleAfterOp(m, op) ==
  IF m.panic THEN [panic |-> TRUE, at |-> m.at]
  ELSE IF is_add(op)
    THEN [panic |-> FALSE, at |-> m.at, entity |-> m.entity,
          bundle |-> insert(m.bundle, op.comp)]
  ELSE LET r == bundle_remove(m.bundle, op.ty)
       IN IF r.panic \/ ~r.ok THEN [panic |-> TRUE, at |-> m.at]
          ELSE [panic |-> FALSE, at |-> m.at, entity |-> m.entity, bundle |-> r.bundle]

\* Archetype::migrate_to_bundle(row, op) (called by World::migrate): the row
\* leaves as a bundle, with the added component or without the removed one
migrate_to_bundle_op(at, row, op, torder) ==
  BundleAfterOp(migrate_to_bundle(at, row, torder), op)

\* World::init
WorldInit ==
  [index |-> [t \in {{}} |-> 0],
   archetypes |-> <<ArchetypeDefault>>,
   entities |-> EntityStoreDefault,
   inclusive_index |-> EmptyMap]

\* get_archetype_id that finds no archetype for any type set
get_archetype_id_NeverFound(w, tys) == None

\* World::get_archetype_id
get_archetype_id(w, tys) ==
  IF tys \in DOMAIN w.index THEN Some(w.index[tys]) ELSE None

\* World::get_archetypes_inclusive: the archetype ids of the cache entry, or
\* none when the key is absent (unwrap_or_default)
get_archetypes_inclusive(w, tys) ==
  IF tys \in DOMAIN w.inclusive_index THEN w.inclusive_index[tys] ELSE <<>>

\* the ids that update_inclusive_index collects from self.index
InclusiveIds(w, tys) == {w.index[t] : t \in {k \in DOMAIN w.index : contains(k, tys)}}

\* update_inclusive_index that pushes the new archetype onto every cache
\* entry, without the types.contains(t) test
update_inclusive_index_NoFilter(w, tys, archetype_id, ids) ==
  LET pushed == [t \in DOMAIN w.inclusive_index |->
                   Append(w.inclusive_index[t], archetype_id)]
  IN [w EXCEPT !.inclusive_index = MapPut(pushed, tys, ids)]

\* World::update_inclusive_index; ids is the Vec collected from the HashMap
\* iteration over self.index, in the order that iteration happens to take
update_inclusive_index(w, tys, archetype_id, ids) ==
  LET pushed == [t \in DOMAIN w.inclusive_index |->
                   IF contains(tys, t) THEN Append(w.inclusive_index[t], archetype_id)
                   ELSE w.inclusive_index[t]]
  IN [w EXCEPT !.inclusive_index = MapPut(pushed, tys, ids)]

\* push_archetype that puts the new archetype at the front of the vector
PushedArchetype_AtFront(w, bundle, entity) ==
  [w EXCEPT !.index = MapPut(@, types(bundle), Len(w.archetypes)),
            !.archetypes = <<ArchetypeNew(bundle, entity)>> \o @]

\* the world as push_archetype hands it to update_inclusive_index
PushedArchetype(w, bundle, entity) ==
  [w EXCEPT !.index = MapPut(@, types(bundle), Len(w.archetypes)),
            !.archetypes = Append(@, ArchetypeNew(bundle, entity))]

\* the orders the HashMap iteration of update_inclusive_index can produce when
\* an archetype for the bundle is pushed
PushIdOrders(w, bundle) ==
  Orders(InclusiveIds(PushedArchetype(w, bundle, EntityId(0, 0)), types(bundle)))

\* World::push_archetype
push_archetype(w, bundle, entity, ids) ==
  LET archetype_id == Len(w.archetypes)
  IN [w |-> update_inclusive_index(PushedArchetype(w, bundle, entity),
                                   types(bundle), archetype_id, ids),
      id |-> archetype_id]

\* World::mutate_archetypes: assert!(first < second), then split_at_mut(second)
mutate_archetypes(w, first, second) ==
  IF first < second /\ second < Len(w.archetypes)
    THEN [panic |-> FALSE, a |-> w.archetypes[first + 1], b |-> w.archetypes[second + 1]]
  ELSE [panic |-> TRUE]

\* World::spawn, line 43: set_location, then Ok(entity)
SpawnLocated(placed, entity) ==
  IF placed.panic THEN [ret |-> "Panic", w |-> placed.w]
  ELSE LET s == set_location(placed.w.entities, entity, placed.loc)
       IN IF s.panic THEN [ret |-> "Panic", w |-> placed.w]
          ELSE [ret |-> "Ok", id |-> entity,
                w |-> [placed.w EXCEPT !.entities = s.store]]

\* spawn that records row 0 for an entity added to an existing archetype
SpawnAdded_RowZero(w, archetype_id, a) ==
  [panic |-> a.panic,
   w |-> [w EXCEPT !.archetypes[archetype_id + 1] = a.at],
   loc |-> Location(archetype_id, 0)]

\* World::spawn, lines 35-38: the bundle joins the archetype of its types
SpawnAdded(w, archetype_id, a) ==
  [panic |-> a.panic,
   w |-> [w EXCEPT !.archetypes[archetype_id + 1] = a.at],
   loc |-> Location(archetype_id, a.row)]

\* World::spawn, line 40: the bundle founds its archetype
SpawnPushed(p) == [panic |-> FALSE, w |-> p.w, loc |-> Location(p.id, 0)]

\* World::spawn, lines 32-45
SpawnPlace(w, bundle, entity, ids) ==
  SpawnLocated(
    IF get_archetype_id(w, types(bundle)) # None
      THEN SpawnAdded(w, w.index[types(bundle)],
                      add(w.archetypes[w.index[types(bundle)] + 1], bundle, entity))
    ELSE SpawnPushed(push_archetype(w, bundle, entity, ids)),
    entity)

\* World::spawn, after get_new_id
SpawnWithId(w, bundle, ids, n) ==
  IF ~n.ok THEN [ret |-> "Err", err |-> n.err, w |-> w]
  ELSE SpawnPlace([w EXCEPT !.entities = n.store], bundle, n.id, ids)

\* World::spawn
spawn(w, bundle, ids) == SpawnWithId(w, bundle, ids, get_new_id(w.entities))

\* the world after Archetype::migrate between two of its archetypes
MovedBetween(w, source_idx, target_idx, r) ==
  IF r.panic
    THEN [panic |-> TRUE,
          w |-> [w EXCEPT !.archetypes[source_idx + 1] = r.self,
                          !.archetypes[target_idx + 1] = r.target]]
  ELSE [panic |-> FALSE,
        w |-> [w EXCEPT !.archetypes[source_idx + 1] = r.self,
                        !.archetypes[target_idx + 1] = r.target],
        moved |-> r.moved, new_row |-> r.row, target_idx |-> target_idx]

\* World::migrate, lines 71-72 and 84-85: the row moves between two existing
\* archetypes
MigrateBetween(w, source_idx, target_idx, row, op, torder) ==
  IF mutate_archetypes(w, source_idx, target_idx).panic THEN [panic |-> TRUE, w |-> w]
  ELSE MovedBetween(w, source_idx, target_idx,
                    archetype_migrate(mutate_archetypes(w, source_idx, target_idx).a,
                                      mutate_archetypes(w, source_idx, target_idx).b,
                                      row, op, torder))

\* World::migrate, lines 92-94, after migrate_to_bundle: the bundle founds the
\* target archetype
PushMigrated(w, source_idx, entity, ids, m) ==
  IF m.panic
    THEN [panic |-> TRUE, w |-> [w EXCEPT !.archetypes[source_idx + 1] = m.at]]
  ELSE LET p == push_archetype([w EXCEPT !.archetypes[source_idx + 1] = m.at],
                               m.bundle, entity, ids)
       IN [panic |-> FALSE, w |-> p.w, moved |-> m.entity,
           new_row |-> 0, target_idx |-> p.id]

\* World::migrate, lines 89-94: the row leaves as a bundle that founds the
\* target archetype
MigrateToNew(w, source_idx, row, entity, op, torder, ids) ==
  PushMigrated(w, source_idx, entity, ids,
               migrate_to_bundle_op(w.archetypes[source_idx + 1], row, op, torder))

\* World::migrate, lines 97-102: both archetypes get the edge
InsertEdges(m, source_idx, new_type) ==
  IF m.panic THEN m
  ELSE [m EXCEPT !.w =
          [m.w EXCEPT
             !.archetypes[source_idx + 1].edges = MapPut(@, new_type, m.target_idx),
             !.archetypes[m.target_idx + 1].edges = MapPut(@, new_type, source_idx)]]

\* the type bundle World::migrate looks up when the source has no edge
TargetBundle(at, op) ==
  IF is_add(op) THEN add_type(types(at), op.comp.ty)
  ELSE remove_type(types(at), op.ty)

\* World::migrate, lines 76-104: no edge for the type
MigrateUncached(w, source_idx, row, entity, op, new_type, torder, ids) ==
  InsertEdges(
    IF get_archetype_id(w, TargetBundle(w.archetypes[source_idx + 1], op)) # None
      THEN MigrateBetween(w, source_idx,
                          w.index[TargetBundle(w.archetypes[source_idx + 1], op)],
                          row, op, torder)
    ELSE MigrateToNew(w, source_idx, row, entity, op, torder, ids),
    source_idx, new_type)

\* the type bundle of the archetype that World::migrate pushes, if it pushes one
PushedByMigrate(w, entity, op) ==
  LET st == entity_status(w.entities, entity)
  IN IF ~st.ok \/ st.val = None THEN None
     ELSE LET tb == TargetBundle(w.archetypes[st.val[1].archetype + 1], op)
          IN IF tb \in DOMAIN w.index THEN None ELSE Some(tb)

\* the orders the HashMap iteration of update_inclusive_index can produce
\* inside World::migrate
MigrateIdOrders(w, entity, op) ==
  LET tb == PushedByMigrate(w, entity, op)
  IN IF tb = None THEN {<<>>}
     ELSE Orders(InclusiveIds([w EXCEPT !.index = MapPut(@, tb[1], Len(w.archetypes))],
                              tb[1]))

\* World::migrate, lines 107-111: the two set_location calls, then Ok(())
MigrateLocated(m, entity, location) ==
  IF m.panic THEN [ret |-> "Panic", w |-> m.w]
  ELSE LET s1 == set_location(m.w.entities, entity, Location(m.target_idx, m.new_row))
           s2 == set_location(s1.store, m.moved, location)
       IN IF s1.panic THEN [ret |-> "Panic", w |-> m.w]
          ELSE IF s2.panic THEN [ret |-> "Panic", w |-> [m.w EXCEPT !.entities = s1.store]]
          ELSE [ret |-> "Ok", w |-> [m.w EXCEPT !.entities = s2.store]]

\* World::migrate, lines 53-111, for an entity with a location
MigrateFrom(w, entity, op, torder, ids, location) ==
  LET source_idx == location.archetype
      source == w.archetypes[source_idx + 1]
      new_type == IF is_add(op) THEN op.comp.ty ELSE op.ty
      asserted == IF is_add(op) THEN ~has_type(source, new_type)
                  ELSE has_type(source, new_type)
  IN IF ~asserted THEN [ret |-> "Panic", w |-> w]
     ELSE MigrateLocated(
            IF new_type \in DOMAIN source.edges
              THEN MigrateBetween(w, source_idx, source.edges[new_type],
                                  location.row, op, torder)
            ELSE MigrateUncached(w, source_idx, location.row, entity, op,
                                 new_type, torder, ids),
            entity, location)

\* World::migrate
migrate(w, entity, op, torder, ids) ==
  LET st == entity_status(w.entities, entity)
  IN IF ~st.ok THEN [ret |-> "Err", err |-> st.err, w |-> w]
     ELSE IF st.val = None THEN [ret |-> "Err", err |-> "NotFound", w |-> w]
     ELSE MigrateFrom(w, entity, op, torder, ids, st.val[1])

\* World::kill, line 116: the row is removed
KillRemoved(w, archetype_id, r) ==
  [ret |-> IF r.panic THEN "Panic" ELSE "Ok",
   w |-> [w EXCEPT !.archetypes[archetype_id + 1] = r.at]]

\* World::kill, after free
KillFreed(w, f, torder) ==
  IF ~f.ok THEN [ret |-> "Err", err |-> f.err, w |-> w]
  ELSE KillRemoved([w EXCEPT !.entities = f.store], f.loc.archetype,
                   remove(w.archetypes[f.loc.archetype + 1], f.loc.row, torder))

\* World::kill: the id is freed, then the row is removed
kill(w, entity, torder) == KillFreed(w, free(w.entities, entity), torder)

\* ---------------------------------------------------------------- queries
\* a row shape: the fields of a #[derive(QueryModel)] struct, each a reference
\* (mut or not) to a component type
Field(ty, mut) == [ty |-> ty, mut |-> mut]
Fields == {Field(t, m) : t \in Types, m \in BOOLEAN}
Queries == UNION {[1..n -> Fields] : n \in 1..MaxFields}

\* QueryModel::get_types: TypeBundle::from(&[TypeId]) collects into a set
get_types(q) == {q[i].ty : i \in DOMAIN q}

\* Archetype::get_storage (called by get_reads / get_writes)
get_storage(at, type_id) ==
  IF type_id \in DOMAIN at.index THEN Some(at.index[type_id]) ELSE None

\* get_reads and get_writes: every field unwraps its column; the read borrows
\* are taken first, and a write borrow of a column that is already borrowed is
\* a runtime error
BorrowsOk(at, q) ==
  /\ \A i \in DOMAIN q : get_storage(at, q[i].ty) # None
  /\ \A i, j \in DOMAIN q : (i # j /\ q[i].mut) => q[i].ty # q[j].ty

\* the column a field reads or writes
FieldColumn(at, f) == at.storage[at.index[f.ty] + 1].vec

\* QueryModel::process: idx runs over 0..len of the first field's column, and
\* every field indexes its own column at idx before the callback is called
ProcessRows(at, q) ==
  LET n == Len(FieldColumn(at, q[1]))
      short == {Len(FieldColumn(at, q[i])) : i \in DOMAIN q}
      m == CHOOSE x \in short : \A y \in short : x <= y
  IN [panic |-> m < n, rows |-> m]

\* the loop of World::run_system over the archetypes of the cache entry;
\* visited lists the (archetype, row) pairs the callback was called with
RECURSIVE RunArchetypes(_, _, _, _)
RunArchetypes(w, q, list, visited) ==
  IF list = <<>> THEN [panic |-> FALSE, visited |-> visited]
  ELSE LET a == Head(list)
           at == w.archetypes[a + 1]
       IN IF ~BorrowsOk(at, q) THEN [panic |-> TRUE, visited |-> visited]
          ELSE LET p == ProcessRows(at, q)
                   seen == visited \o [r \in 1..p.rows |-> Location(a, r - 1)]
               IN IF p.panic THEN [panic |-> TRUE, visited |-> seen]
                  ELSE RunArchetypes(w, q, Tail(list), seen)

\* what run_system leaves behind: it takes &self, so the world it was called on
RunSystemResult(w, r) == [panic |-> r.panic, visited |-> r.visited, w |-> w]

\* run_system that, for a key the cache does not hold, scans the archetypes
\* and stores the entry it built
run_system_BuildsEntry(w, q) ==
  RunSystemResult(
    [w EXCEPT !.inclusive_index =
       IF get_types(q) \in DOMAIN w.inclusive_index THEN w.inclusive_index
       ELSE MapPut(w.inclusive_index, get_types(q), <<>>)],
    RunArchetypes(w, q, get_archetypes_inclusive(w, get_types(q)), <<>>))

\* World::run_system
run_system(w, q) ==
  RunSystemResult(w, RunArchetypes(w, q, get_archetypes_inclusive(w, get_types(q)), <<>>))

\* the fields in the order their borrows are taken: get_reads takes the shared
\* references in field order, then get_writes the mutable ones; each entry
\* keeps the number of its field
BorrowOrder(q) ==
  SelectSeq([i \in DOMAIN q |-> [field |-> i, ty |-> q[i].ty, mut |-> q[i].mut]],
            LAMBDA f : ~f.mut)
  \o SelectSeq([i \in DOMAIN q |-> [field |-> i, ty |-> q[i].ty, mut |-> q[i].mut]],
               LAMBDA f : f.mut)

\* the borrow at position k of the order succeeds: the column exists, and a
\* mutable borrow finds the column not borrowed yet
BorrowSucceeds(at, order, k) ==
  /\ get_storage(at, order[k].ty) # None
  /\ order[k].mut => \A j \in 1..(k - 1) : order[j].ty # order[k].ty

\* how many borrows are taken before one fails (all of them when none does)
BorrowsTaken(at, order) ==
  Cardinality({k \in DOMAIN order : \A j \in 1..k : BorrowSucceeds(at, order, j)})

BorrowEvent(ev, a, f) ==
  [ev |-> ev, archetype |-> a, field |-> f.field, ty |-> f.ty, mut |-> f.mut]

\* one pass of the loop body for archetype a, with the guards never dropped
ArchetypeBorrows_NoRelease(at, a, order) ==
  [k \in 1..BorrowsTaken(at, order) |-> BorrowEvent("acquire", a, order[k])]

\* one pass of the loop body for archetype a: the guards are taken into the
\* reads and writes vectors, which process consumes; the guards taken are
\* dropped when process ends or a panic unwinds, the last taken first
ArchetypeBorrows(at, a, order) ==
  [k \in 1..BorrowsTaken(at, order) |-> BorrowEvent("acquire", a, order[k])]
  \o [k \in 1..BorrowsTaken(at, order) |->
        BorrowEvent("release", a, order[BorrowsTaken(at, order) + 1 - k])]

\* the borrow events of the loop of World::run_system, in order; the loop
\* ends where RunArchetypes panics
RECURSIVE RunBorrows(_, _, _)
RunBorrows(w, q, list) ==
  IF list = <<>> THEN <<>>
  ELSE ArchetypeBorrows(w.archetypes[Head(list) + 1], Head(list), BorrowOrder(q))
       \o (IF ~BorrowsOk(w.archetypes[Head(list) + 1], q) THEN <<>>
           ELSE IF ProcessRows(w.archetypes[Head(list) + 1], q).panic THEN <<>>
           ELSE RunBorrows(w, q, Tail(list)))

\* the borrow events of World::run_system
run_system_borrows(w, q) == RunBorrows(w, q, get_archetypes_inclusive(w, get_types(q)))

\* ---------------------------------------------------------------- state
VARIABLES
  index,            \* World.index: TypeBundle -> archetype id
  archetypes,       \* World.archetypes
  entities,         \* World.entities, the EntityStore
  inclusive_index,  \* World.inclusive_index: TypeBundle -> Vec of archetype ids
  panicked,         \* a call has panicked: the program has ended
  call,             \* the last call made on the world
  ret,              \* its result: "Ok", "Err" or "Panic"
  visited,          \* the rows the callback of the last run_system was called with
  given,            \* EntityId -> the components handed over for it so far
  component_bundle, \* a ComponentBundle driven on its own
  columns,          \* a pair of ComponentStores driven on their own
  borrows           \* the column borrows taken and released by the last run_system

vars == <<index, archetypes, entities, inclusive_index, panicked, call, ret, visited, given,
          component_bundle, columns, borrows>>

World ==
  [index |-> index, archetypes |-> archetypes, entities |-> entities,
   inclusive_index |-> inclusive_index]

SetWorld(w) ==
  /\ index' = w.index
  /\ archetypes' = w.archetypes
  /\ entities' = w.entities
  /\ inclusive_index' = w.inclusive_index

\* the EntityIds a caller can hand to kill and migrate
IdInputs == {EntityId(i, g) : i \in 0..MaxEntities, g \in 0..MaxGen}

\* the world as World::init leaves it, before any call
WorldFresh ==
  /\ index = WorldInit.index
  /\ archetypes = WorldInit.archetypes
  /\ entities = WorldInit.entities
  /\ inclusive_index = WorldInit.inclusive_index
  /\ panicked = FALSE
  /\ call = [op |-> "init"]
  /\ ret = "Ok"
  /\ visited = <<>>
  /\ given = EmptyMap
  /\ borrows = <<>>

Init ==
  /\ WorldFresh
  /\ component_bundle = BundleDefault
  /\ columns = <<>>

\* what a call leaves behind: the world, its result, and whether it panicked
Returns(r) ==
  /\ SetWorld(r.w)
  /\ panicked' = (r.ret = "Panic")
  /\ ret' = r.ret
  /\ borrows' = <<>>
  /\ UNCHANGED <<component_bundle, columns>>

SpawnReturns(bundle, r) ==
  /\ Returns(r)
  /\ call' = [op |-> "spawn", bundle |-> bundle,
              entity |-> IF r.ret = "Ok" THEN Some(r.id) ELSE None]
  /\ given' = IF r.ret = "Ok" THEN MapPut(given, r.id, bundle.components) ELSE given
  /\ visited' = <<>>

Spawn(bundle) ==
  /\ ~panicked
  /\ entities.count < MaxEntities
  /\ \E ids \in (IF types(bundle) \in DOMAIN index THEN {<<>>}
                 ELSE PushIdOrders(World, bundle)) :
       SpawnReturns(bundle, spawn(World, bundle, ids))

MigrateReturns(entity, op, r) ==
  /\ Returns(r)
  /\ call' = [op |-> "migrate", entity |-> entity, migration |-> op]
  /\ given' = IF r.ret # "Ok" THEN given
              ELSE IF is_add(op) THEN [given EXCEPT ![entity] = Append(@, op.comp)]
              ELSE [given EXCEPT ![entity] = SelectSeq(@, LAMBDA c : c.ty # op.ty)]
  /\ visited' = <<>>

Migrate(entity, op) ==
  /\ ~panicked
  /\ \E torder \in Orders(Types), ids \in MigrateIdOrders(World, entity, op) :
       MigrateReturns(entity, op, migrate(World, entity, op, torder, ids))

KillReturns(entity, r) ==
  /\ Returns(r)
  /\ call' = [op |-> "kill", entity |-> entity]
  /\ given' = given
  /\ visited' = <<>>

Kill(entity) ==
  /\ ~panicked
  /\ \E torder \in Orders(Types) : KillReturns(entity, kill(World, entity, torder))

RunSystemReturns(q, r) ==
  /\ panicked' = r.panic
  /\ ret' = IF r.panic THEN "Panic" ELSE "Ok"
  /\ visited' = r.visited
  /\ call' = [op |-> "run_system", query |-> q]
  /\ SetWorld(r.w)
  /\ given' = given
  /\ borrows' = run_system_borrows(World, q)
  /\ UNCHANGED <<component_bundle, columns>>

RunSystem(q) ==
  /\ ~panicked
  /\ RunSystemReturns(q, run_system(World, q))

Next ==
  \/ \E bundle \in Bundles : Spawn(bundle)
  \/ \E entity \in IdInputs, op \in Migrations : Migrate(entity, op)
  \/ \E entity \in IdInputs : Kill(entity)
  \/ \E q \in Queries : RunSystem(q)

Spec == Init /\ [][Next]_vars

\* ---------------------------------------------------------------- EntityStore on its own
\* The registry driven through its own public methods, as entity.rs's tests
\* drive it: entities holds the EntityStore, the other fields of the world
\* stay as World::init left them.

\* the EntityIds set_location and free are called with: the fields of
\* EntityId are private, so a caller holds only ids an allocation returned
\* (given records them), of which these are tried
StoreIds == {EntityId(i, g) : i \in 0..(MaxEntities - 1), g \in 0..U32Max}
\* the EntityIds entity_status is asked about
StatusIds == {EntityId(i, g) : i \in 0..MaxEntities, g \in 0..U32Max}
\* the Locations a caller can hand to set_location
StoreLocations == {Location(0, 0)}
\* the counts a caller can hand to get_new_ids
StoreCounts == 0..U32Max

\* what a registry call leaves behind
StoreReturns(c, ok, panic, store) ==
  /\ entities' = store
  /\ call' = c
  /\ ret' = IF panic THEN "Panic" ELSE IF ok THEN "Ok" ELSE "Err"
  /\ panicked' = panic
  /\ given' = IF "ids" \in DOMAIN c
              THEN [e \in (DOMAIN given) \cup {c.ids[i] : i \in DOMAIN c.ids} |-> <<>>]
              ELSE given
  /\ UNCHANGED <<index, archetypes, inclusive_index, visited, component_bundle, columns,
                 borrows>>

StoreGetNewIdReturns(r) ==
  StoreReturns([op |-> "get_new_id", ids |-> IF r.ok THEN <<r.id>> ELSE <<>>],
               r.ok, FALSE, r.store)

StoreGetNewId ==
  /\ ~panicked
  /\ StoreGetNewIdReturns(get_new_id(entities))

StoreGetNewIdsReturns(count, r) ==
  StoreReturns([op |-> "get_new_ids", count |-> count,
                ids |-> IF r.ok THEN r.ids ELSE <<>>],
               r.ok, FALSE, r.store)

StoreGetNewIds(count) ==
  /\ ~panicked
  /\ StoreGetNewIdsReturns(count, get_new_ids(entities, count))

StoreSetLocationReturns(id, location, r) ==
  StoreReturns([op |-> "set_location", id |-> id, location |-> location],
               ~r.panic, r.panic, r.store)

StoreSetLocation(id, location) ==
  /\ ~panicked
  /\ id \in DOMAIN given
  /\ StoreSetLocationReturns(id, location, set_location(entities, id, location))

StoreFreeReturns(id, r) ==
  StoreReturns([op |-> "free", id |-> id], r.ok, r.panic, r.store)

StoreFree(id, overflow_checks) ==
  /\ ~panicked
  /\ id \in DOMAIN given
  /\ Len(entities.freed) < MaxFreed
  /\ StoreFreeReturns(id, free_build(entities, id, overflow_checks))

StoreEntityStatusReturns(id, r) ==
  StoreReturns([op |-> "entity_status", id |-> id, result |-> r], r.ok, FALSE, entities)

\* entity_status takes &self: the registry is left as it is
StoreEntityStatus(id) ==
  /\ ~panicked
  /\ StoreEntityStatusReturns(id, entity_status(entities, id))

StoreNext ==
  \/ StoreGetNewId
  \/ \E id \in StatusIds : StoreEntityStatus(id)
  \/ \E count \in StoreCounts : StoreGetNewIds(count)
  \/ \E id \in StoreIds, location \in StoreLocations : StoreSetLocation(id, location)
  \/ \E id \in StoreIds, overflow_checks \in BOOLEAN : StoreFree(id, overflow_checks)

StoreSpec == Init /\ [][StoreNext]_vars

\* ---------------------------------------------------------------- ComponentBundle on its own
\* A bundle driven through insert and remove, as bundle.rs's tests drive it.

\* what a bundle call leaves behind; the world stays as World::init left it
BundleReturns(c, ok, panic, b) ==
  /\ component_bundle' = b
  /\ call' = c
  /\ ret' = IF panic THEN "Panic" ELSE IF ok THEN "Ok" ELSE "Err"
  /\ panicked' = panic
  /\ UNCHANGED <<index, archetypes, entities, inclusive_index, visited, given, columns,
                 borrows>>

BundleInsert(comp) ==
  /\ ~panicked
  /\ Len(component_bundle.components) < MaxBundle
  /\ BundleReturns([op |-> "insert", comp |-> comp], TRUE, FALSE,
                   insert(component_bundle, comp))

BundleRemoveReturns(type_id, r) ==
  BundleReturns([op |-> "remove", type_id |-> type_id,
                 result |-> IF r.ok THEN Some(r.comp) ELSE None],
                r.ok, r.panic, r.bundle)

BundleRemove(type_id) ==
  /\ ~panicked
  /\ BundleRemoveReturns(type_id, bundle_remove(component_bundle, type_id))

BundleNext ==
  \/ \E comp \in Comps : BundleInsert(comp)
  \/ \E type_id \in Types : BundleRemove(type_id)

BundleSpec == Init /\ [][BundleNext]_vars

\* ---------------------------------------------------------------- ComponentStores on their own
\* Two columns driven through push, swap_remove and migrate, as
\* component.rs's tests drive them; columns[1] and columns[2] are the stores.

\* two stores as ComponentStore::from builds them, one component each
ColumnInit ==
  /\ WorldFresh
  /\ component_bundle = BundleDefault
  /\ columns \in {<<ComponentStore(a), ComponentStore(b)>> : a, b \in Comps}

\* what a column call leaves behind; the world stays as World::init left it
ColumnReturns(c, ok, panic, cols) ==
  /\ columns' = cols
  /\ call' = c
  /\ ret' = IF panic THEN "Panic" ELSE IF ok THEN "Ok" ELSE "Err"
  /\ panicked' = panic
  /\ UNCHANGED <<index, archetypes, entities, inclusive_index, visited, given, component_bundle,
                 borrows>>

ColumnsPushReturns(i, comp, r) ==
  ColumnReturns([op |-> "push", column |-> i, comp |-> comp], r.ok, FALSE,
                [columns EXCEPT ![i] = r.col])

ColumnsPush(i, comp) ==
  /\ ~panicked
  /\ Len(columns[i].vec) < MaxRows
  /\ ColumnsPushReturns(i, comp, ColumnPush(columns[i], comp))

ColumnsSwapRemoveReturns(i, row, r) ==
  ColumnReturns([op |-> "swap_remove", column |-> i, row |-> row,
                 result |-> IF r.panic THEN None ELSE Some(r.comp)],
                TRUE, r.panic, [columns EXCEPT ![i] = r.col])

ColumnsSwapRemove(i, row) ==
  /\ ~panicked
  /\ ColumnsSwapRemoveReturns(i, row, ColumnSwapRemove(columns[i], row))

ColumnsMigrateReturns(i, j, row, r) ==
  ColumnReturns([op |-> "migrate", source |-> i, target |-> j, row |-> row],
                r.ok, r.panic, [columns EXCEPT ![i] = r.source, ![j] = r.target])

\* source.migrate(row, &target) with source = columns[i], target = columns[j]
ColumnsMigrate(i, j, row) ==
  /\ ~panicked
  /\ i # j
  /\ Len(columns[j].vec) < MaxRows
  /\ ColumnsMigrateReturns(i, j, row, ColumnMigrate(columns[i], row, columns[j]))

ColumnNext ==
  \/ \E i \in 1..2, comp \in Comps : ColumnsPush(i, comp)
  \/ \E i \in 1..2, row \in 0..MaxRows : ColumnsSwapRemove(i, row)
  \/ \E i \in 1..2, j \in 1..2, row \in 0..MaxRows : ColumnsMigrate(i, j, row)

ColumnSpec == ColumnInit /\ [][ColumnNext]_vars

\* ---------------------------------------------------------------- observers
\* the archetype with id a
ArchetypeAt(w, a) == w.archetypes[a + 1]
ArchetypeIds(w) == 0..(Len(w.archetypes) - 1)

\* the EntityIds the registry holds with a location (the live ids)
LiveIds(w) ==
  {EntityId(i - 1, w.entities.entities[i].generation) :
     i \in {j \in 1..Len(w.entities.entities) : w.entities.entities[j].location # None}}
LocationOf(w, e) == w.entities.entities[e.id + 1].location[1]

\* the value an archetype holds for type t at a row, as get_storage resolves it
HeldAt(at, t, row) ==
  LET col == at.storage[at.index[t] + 1].vec
  IN IF row < Len(col) THEN Some(col[row + 1]) ELSE None

\* the schema of the archetype a live entity is located in
SchemaOf(w, e) == types(ArchetypeAt(w, LocationOf(w, e).archetype))

\* the values handed over for an entity and a type
GivenFor(e, t) == {given[e][i].val : i \in {j \in DOMAIN given[e] : given[e][j].ty = t}}

\* ---------------------------------------------------------------- claims

C2_ColumnParity ==
  ~panicked =>
    \A a \in ArchetypeIds(World) :
      \A c \in DOMAIN ArchetypeAt(World, a).storage :
        Len(ArchetypeAt(World, a).storage[c].vec) = Len(ArchetypeAt(World, a).entities)

\* C3: the values held for a live entity, at its row in each column of its
\* archetype, are the values it was spawned or migrated with; a kill or migrate
\* of another entity does not change, exchange or drop them.
C3_HeldValuesKept ==
  \A e \in LiveIds(World) :
    (call.op \in {"kill", "migrate"} => call.entity # e) =>
      \A t \in SchemaOf(World, e) :
        LET held == HeldAt(ArchetypeAt(World, LocationOf(World, e).archetype), t,
                           LocationOf(World, e).row)
        IN held # None /\ held[1] \in GivenFor(e, t)

C5_AddThenRemove ==
  [][\A e \in IdInputs, c \in Comps :
       ( /\ e \in LiveIds(World)
         /\ c.ty \notin SchemaOf(World, e)
         /\ call' = [op |-> "migrate", entity |-> e, migration |-> MigrationAdd(c)] )
       => /\ ret' = "Ok"
          /\ e \in LiveIds(World')
          /\ SchemaOf(World', e) = SchemaOf(World, e) \cup {c.ty}
          /\ \A torder \in Orders(Types),
                ids \in MigrateIdOrders(World', e, MigrationRemove(c.ty)) :
               LET back == migrate(World', e, MigrationRemove(c.ty), torder, ids)
               IN back.ret = "Ok" /\ SchemaOf(back.w, e) = SchemaOf(World, e)
    ]_vars

\* the archetypes whose schema contains every type of a query type set
Matching(w, tys) == {a \in ArchetypeIds(w) : contains(types(ArchetypeAt(w, a)), tys)}

\* the type sets a derived query can ask for
QuerySets == (SUBSET Types) \ {{}}

\* C6: for every query type set Q, also one that is the schema of no archetype,
\* the archetype list run_system uses holds every archetype whose schema is a
\* superset of Q.
C6_InclusiveComplete ==
  \A tys \in QuerySets :
    LET list == get_archetypes_inclusive(World, tys)
    IN Matching(World, tys) \subseteq {list[i] : i \in DOMAIN list}

\* C7: every archetype index stored in the inclusive-match cache under key K
\* is an archetype whose schema contains every type of K, and no index
\* appears twice in one entry.
C7_CacheSound ==
  \A k \in DOMAIN inclusive_index :
    LET list == inclusive_index[k]
    IN /\ \A i \in DOMAIN list : list[i] \in Matching(World, k)
       /\ \A i, j \in DOMAIN list : list[i] = list[j] => i = j

\* C7 witness: a cache entry lists two archetypes
C7_Witness ==
  \E k \in DOMAIN inclusive_index : Len(inclusive_index[k]) >= 2

\* the fields of a query name pairwise different component types
NoAlias(q) == \A i, j \in DOMAIN q : q[i].ty = q[j].ty => i = j

\* the rows of the live entities whose archetype schema contains the types
RowsOf(w, tys) ==
  {LocationOf(w, e) : e \in {x \in LiveIds(w) : contains(SchemaOf(w, x), tys)}}

\* C8: run_system calls the callback exactly once for every live entity whose
\* archetype schema contains all requested types, and for no other row.
C8_VisitsEveryRowOnce ==
  (call.op = "run_system" /\ NoAlias(call.query)) =>
    /\ ret = "Ok"
    /\ {visited[i] : i \in DOMAIN visited} = RowsOf(World, get_types(call.query))
    /\ Len(visited) = Cardinality(RowsOf(World, get_types(call.query)))

\* C9: no two archetypes of the world have the same schema.
C9_SchemaUnique ==
  \A a, b \in ArchetypeIds(World) :
    types(ArchetypeAt(World, a)) = types(ArchetypeAt(World, b)) => a = b

\* C9 witness: a second bundle of the same types, one of them built with a
\* repeated insert, was spawned into the archetype the first had founded
C9_Witness ==
  /\ call.op = "spawn"
  /\ ret = "Ok"
  /\ Len(call.bundle.components) > Cardinality(types(call.bundle))
  /\ \E a \in ArchetypeIds(World) : Len(ArchetypeAt(World, a).entities) = 2

\* C10: an edge archetypes[a].edges[T] = b names an archetype b with
\* archetypes[b].edges[T] = a, and the schemas of a and b differ by exactly T.
C10_EdgeSymmetry ==
  \A a \in ArchetypeIds(World) :
    \A t \in DOMAIN ArchetypeAt(World, a).edges :
      LET b == ArchetypeAt(World, a).edges[t]
      IN /\ b \in ArchetypeIds(World)
         /\ t \in DOMAIN ArchetypeAt(World, b).edges
         /\ ArchetypeAt(World, b).edges[t] = a
         /\ \/ types(ArchetypeAt(World, b)) = types(ArchetypeAt(World, a)) \cup {t}
               /\ t \notin types(ArchetypeAt(World, a))
            \/ types(ArchetypeAt(World, a)) = types(ArchetypeAt(World, b)) \cup {t}
               /\ t \notin types(ArchetypeAt(World, b))

\* an edge exists
C10_EdgeExists ==
  \E a \in ArchetypeIds(World) : DOMAIN ArchetypeAt(World, a).edges # {}

\* C11: for every registry index the stored generation never decreases over
\* get_new_id / get_new_ids / set_location / free calls, and it changes only
\* in a free that returned Ok for that index, by exactly one.
C11_GenerationMonotone ==
  [][\A i \in 1..Len(entities.entities) :
       /\ i <= Len(entities'.entities)
       /\ entities'.entities[i].generation >= entities.entities[i].generation
       /\ entities'.entities[i].generation # entities.entities[i].generation
            => /\ call'.op = "free"
               /\ ret' = "Ok"
               /\ call'.id.id = i - 1
               /\ entities'.entities[i].generation = entities.entities[i].generation + 1
    ]_vars

\* C12: when free(e) has returned Ok and the next allocation takes e's index
\* from the freed list, the id it returns has e's index, a generation exactly
\* one above e's, and no location.
C12_ReuseBumpsGeneration ==
  [][(call'.op = "free" /\ ret' = "Ok")
       => /\ get_new_id(entities').ok
          /\ get_new_id(entities').id = EntityId(call'.id.id, call'.id.generation + 1)
          /\ entity_status(get_new_id(entities').store, get_new_id(entities').id)
               = [ok |-> TRUE, val |-> None]
    ]_vars

\* C19: get_new_ids(n) either returns n ids or fails and leaves the registry
\* (slot array, count and freed list) as it was before the call.
C19_GetNewIdsAtomic ==
  [][call'.op = "get_new_ids"
       => \/ ret' = "Ok" /\ Len(call'.ids) = call'.count
          \/ ret' = "Err" /\ entities' = entities
    ]_vars

\* C20: with an empty freed list get_new_id returns Ok while fewer than 2^32
\* indices have been issued (count < u32::MAX + 1), and fails, leaving the
\* registry unchanged, only when all of them have been.
C20_AllIndicesIssued ==
  [][(call'.op = "get_new_id" /\ entities.freed = <<>>)
       => IF entities.count < U32Max + 1
            THEN ret' = "Ok" /\ entities'.count = entities.count + 1
            ELSE ret' = "Err" /\ entities' = entities
    ]_vars

\* a bundle into which some component type was inserted more than once
HasDuplicateType(bundle) == Len(bundle.components) > Cardinality(types(bundle))

\* C13: World::spawn of a bundle into which the same component type was
\* inserted twice returns an error and leaves the world (registry, archetypes,
\* indexes) unchanged.
C13_DuplicateRejected ==
  [][(call'.op = "spawn" /\ HasDuplicateType(call'.bundle))
       => ret' = "Err" /\ World' = World
    ]_vars

\* a migration whose precondition fails for the schema of a live entity: Add
\* of a type in the schema, or Remove of a type not in it
BadMigration(w, e, op) ==
  IF is_add(op) THEN op.comp.ty \in SchemaOf(w, e) ELSE op.ty \notin SchemaOf(w, e)

\* C14: World::migrate on a live entity with Add of a type already in its
\* schema, or Remove of a type not in it, returns an error without aborting
\* and leaves the world unchanged.
C14_BadMigrationIsError ==
  [][(/\ call'.op = "migrate"
      /\ call'.entity \in LiveIds(World)
      /\ BadMigration(World, call'.entity, call'.migration))
       => ret' = "Err" /\ World' = World
    ]_vars

\* C15: every inclusive-match cache entry lists archetype indices in ascending
\* order, and the callback of one run_system call sees the rows in ascending
\* (archetype index, row) order.
C15_CreationOrder ==
  /\ \A k \in DOMAIN inclusive_index :
       \A i, j \in DOMAIN inclusive_index[k] :
         i < j => inclusive_index[k][i] < inclusive_index[k][j]
  /\ \A i, j \in DOMAIN visited :
       i < j => \/ visited[i].archetype < visited[j].archetype
                \/ /\ visited[i].archetype = visited[j].archetype
                   /\ visited[i].row < visited[j].row

\* C16: a run_system call whose callback writes nothing leaves the world
\* unchanged (registry, archetypes with their columns, rows and edges, primary
\* index, inclusive-match cache), and with it the archetype list of every
\* later query.
C16_RunSystemReadsOnly ==
  [][call'.op = "run_system"
       => /\ World' = World
          /\ \A tys \in QuerySets :
               get_archetypes_inclusive(World', tys) = get_archetypes_inclusive(World, tys)
    ]_vars

\* C16 witness: a run_system call has returned after its callback was called
C16_Witness ==
  call.op = "run_system" /\ ret = "Ok" /\ visited # <<>>

\* C17: a run_system call with a query whose row shape names one component
\* type in two fields (read and write, or twice) fails, and the callback is
\* not called for any row.
C17_AliasingRejected ==
  (call.op = "run_system" /\ ~NoAlias(call.query))
    => ret # "Ok" /\ visited = <<>>

\* the registry slot an id names holds a location under the id's generation
StoreLive(store, id) ==
  /\ entity_status(store, id).ok
  /\ entity_status(store, id).val # None

\* C21: free of a live id whose generation is u32::MAX retires the index: the
\* call does not abort, the index is not pushed on the freed list, and the
\* stored generation does not wrap around.
C21_MaxGenerationRetired ==
  [][(/\ call'.op = "free"
      /\ StoreLive(entities, call'.id)
      /\ call'.id.generation = U32Max)
       => /\ ret' # "Panic"
          /\ entities'.freed = entities.freed
          /\ entities'.entities[call'.id.id + 1].generation = U32Max
    ]_vars

\* C22: entity_status(id) is NotFound iff id's index is outside the slot
\* array, WrongGen iff the index is in range and the stored generation
\* differs, otherwise Ok with the stored location; the registry is unchanged.
C22_EntityStatus ==
  [][call'.op = "entity_status"
       => /\ entities' = entities
          /\ (call'.result = [ok |-> FALSE, err |-> "NotFound"])
               <=> (call'.id.id >= Len(entities.entities))
          /\ (call'.result = [ok |-> FALSE, err |-> "WrongGen"])
               <=> /\ call'.id.id < Len(entities.entities)
                   /\ entities.entities[call'.id.id + 1].generation # call'.id.generation
          /\ (/\ call'.id.id < Len(entities.entities)
              /\ entities.entities[call'.id.id + 1].generation = call'.id.generation)
               => call'.result =
                    [ok |-> TRUE, val |-> entities.entities[call'.id.id + 1].location]
    ]_vars

\* C22 witness: entity_status has answered Ok(None) for a slot that was
\* allocated again after a free and not placed yet
C22_Witness ==
  /\ call.op = "entity_status"
  /\ call.result = [ok |-> TRUE, val |-> None]
  /\ call.id.generation > 0

\* C23: free(id) on a live id returns Ok, clears the location, changes the
\* stored generation and pushes the index on the freed list, and
\* entity_status(id) is an error afterwards; free fails with NotFound for an
\* index out of range, WrongGen for a generation mismatch and AlreadyFreed for
\* a slot without location, and a failing free leaves the registry unchanged.
C23_Free ==
  [][call'.op = "free"
       => IF StoreLive(entities, call'.id)
            THEN /\ ret' = "Ok"
                 /\ entities'.entities[call'.id.id + 1].location = None
                 /\ entities'.entities[call'.id.id + 1].generation
                      # entities.entities[call'.id.id + 1].generation
                 /\ entities'.freed = Append(entities.freed, call'.id.id)
                 /\ ~entity_status(entities', call'.id).ok
          ELSE /\ ret' = "Err"
               /\ entities' = entities
               /\ free(entities, call'.id).err =
                    IF call'.id.id >= Len(entities.entities) THEN "NotFound"
                    ELSE IF entities.entities[call'.id.id + 1].generation
                              # call'.id.generation THEN "WrongGen"
                    ELSE "AlreadyFreed"
    ]_vars

\* C24: an allocation returns no (index, generation) pair an earlier
\* allocation returned, no pair twice, and no index that is allocated and
\* not freed (every returned index was on the freed list or beyond count).
C24_IdsUnique ==
  [][call'.op \in {"get_new_id", "get_new_ids"}
       => /\ \A i \in DOMAIN call'.ids :
               /\ call'.ids[i] \notin DOMAIN given
               /\ \/ call'.ids[i].id >= entities.count
                  \/ \E k \in DOMAIN entities.freed : entities.freed[k] = call'.ids[i].id
          /\ \A i, j \in DOMAIN call'.ids : call'.ids[i] = call'.ids[j] => i = j
    ]_vars

\* C25: a new World holds exactly one archetype, of the empty schema, at
\* index 0; afterwards the number of archetypes never decreases and the schema
\* of the archetype at a given index never changes.
C25_ArchetypesAppendOnly ==
  /\ Len(archetypes) = 1
  /\ types(archetypes[1]) = {}
  /\ [][/\ Len(archetypes') >= Len(archetypes)
        /\ \A a \in 1..Len(archetypes) : types(archetypes'[a]) = types(archetypes[a])
       ]_vars

\* C25 witness: kill was called on the only entity of an archetype that a
\* spawn had created
C25_Witness ==
  /\ call.op = "kill"
  /\ ret = "Panic"
  /\ \E a \in 2..Len(archetypes) : archetypes[a].entities = <<call.entity>>

\* C26: a spawn that returned Ok(e) leaves e live, in the archetype whose
\* schema is bundle.types(), which was created only if no archetype had that
\* schema, at the new last row of that archetype; no other entity's location
\* has changed.
C26_SpawnPlaces ==
  [][(call'.op = "spawn" /\ ret' = "Ok")
       => /\ call'.entity[1] \in LiveIds(World')
          /\ SchemaOf(World', call'.entity[1]) = types(call'.bundle)
          /\ LocationOf(World', call'.entity[1]).row + 1
               = Len(ArchetypeAt(World', LocationOf(World', call'.entity[1]).archetype).entities)
          /\ ArchetypeAt(World', LocationOf(World', call'.entity[1]).archetype)
                .entities[LocationOf(World', call'.entity[1]).row + 1] = call'.entity[1]
          /\ Len(archetypes') =
               IF \E a \in ArchetypeIds(World) :
                    types(ArchetypeAt(World, a)) = types(call'.bundle)
                 THEN Len(archetypes) ELSE Len(archetypes) + 1
          /\ \A e \in LiveIds(World) :
               e \in LiveIds(World') /\ LocationOf(World', e) = LocationOf(World, e)
    ]_vars

\* C26 witness: a spawn has put its entity at row 1 of an archetype that
\* existed before
C26_Witness ==
  /\ call.op = "spawn"
  /\ ret = "Ok"
  /\ LocationOf(World, call.entity[1]).row = 1

\* a migration whose precondition holds for the schema of a live entity
GoodMigration(w, e, op) == e \in LiveIds(w) /\ ~BadMigration(w, e, op)

\* the archetype a migration of e leads to, when the world has it
TargetOf(w, e, op) == get_archetype_id(w, TargetBundle(ArchetypeAt(w, LocationOf(w, e).archetype), op))

\* C27: after a valid migration of a live entity from schema S by T, the
\* call has returned Ok and the source and target archetypes both hold an edge
\* keyed by T to each other; the same migration of another entity of schema S
\* then returns Ok and creates no archetype.
C27_EdgesCached ==
  [][(call'.op = "migrate" /\ GoodMigration(World, call'.entity, call'.migration))
       => /\ ret' = "Ok"
          /\ TargetOf(World', call'.entity, call'.migration) # None
          /\ LET a == LocationOf(World, call'.entity).archetype
                 b == LocationOf(World', call'.entity).archetype
                 t == IF is_add(call'.migration) THEN call'.migration.comp.ty
                      ELSE call'.migration.ty
             IN /\ t \in DOMAIN ArchetypeAt(World', a).edges
                /\ ArchetypeAt(World', a).edges[t] = b
                /\ t \in DOMAIN ArchetypeAt(World', b).edges
                /\ ArchetypeAt(World', b).edges[t] = a
                /\ \A e \in LiveIds(World') :
                     (e # call'.entity /\ LocationOf(World', e).archetype = a)
                       => \A torder \in Orders(Types) :
                            /\ migrate(World', e, call'.migration, torder, <<>>).ret = "Ok"
                            /\ Len(migrate(World', e, call'.migration, torder, <<>>).w.archetypes)
                                 = Len(archetypes')
    ]_vars

\* the component of type t held by a bundle without repeated types
HeldOfType(bundle, t) ==
  CHOOSE c \in {bundle.components[i] : i \in DOMAIN bundle.components} : c.ty = t

\* every index entry of a bundle points at the component of its own type
IndexPointsAtOwnType(bundle) ==
  \A t \in DOMAIN bundle.index :
    /\ bundle.index[t] < Len(bundle.components)
    /\ bundle.components[bundle.index[t] + 1].ty = t

\* C28: for every bundle (of distinct types) and every type t it holds,
\* ComponentBundle::remove(t) returns the component of type t and leaves a
\* bundle whose types() no longer contains t, whose index has exactly one
\* entry per remaining component, and in which each index entry points at the
\* component of its own type, whichever position t was inserted at.
C28_RemoveKeepsIndex ==
  [][(/\ call'.op = "remove"
      /\ ~HasDuplicateType(component_bundle)
      /\ IndexPointsAtOwnType(component_bundle)
      /\ call'.type_id \in types(component_bundle))
       => /\ ret' = "Ok"
          /\ call'.result = Some(HeldOfType(component_bundle, call'.type_id))
          /\ call'.type_id \notin types(component_bundle')
          /\ Cardinality(DOMAIN component_bundle'.index) = Len(component_bundle'.components)
          /\ IndexPointsAtOwnType(component_bundle')
    ]_vars

\* C29: a successful column migrate(row, target) between two columns of the
\* same component type behaves as target.push(source.swap_remove(row)): the
\* source shrinks by one with its former last element now at row, the target
\* grows by one with the former source[row] as its last element, and no other
\* element changes.
C29_MigrateIsPushSwapRemove ==
  [][(call'.op = "migrate" /\ ret' = "Ok")
       => /\ columns[call'.source].ty = columns[call'.target].ty
          /\ columns'[call'.source].ty = columns[call'.source].ty
          /\ columns'[call'.target].ty = columns[call'.target].ty
          /\ Len(columns'[call'.source].vec) = Len(columns[call'.source].vec) - 1
          /\ \A k \in 1..Len(columns'[call'.source].vec) :
               columns'[call'.source].vec[k] =
                 IF k = call'.row + 1
                   THEN columns[call'.source].vec[Len(columns[call'.source].vec)]
                 ELSE columns[call'.source].vec[k]
          /\ Len(columns'[call'.target].vec) = Len(columns[call'.target].vec) + 1
          /\ columns'[call'.target].vec[Len(columns'[call'.target].vec)] =
               columns[call'.source].vec[call'.row + 1]
          /\ \A k \in 1..Len(columns[call'.target].vec) :
               columns'[call'.target].vec[k] = columns[call'.target].vec[k]
          /\ columns'[call'.source] = ColumnSwapRemove(columns[call'.source], call'.row).col
          /\ columns'[call'.target] =
               ColumnPush(columns[call'.target],
                          ColumnSwapRemove(columns[call'.source], call'.row).comp).col
    ]_vars

\* a migrate has succeeded from a row that was not the last of a source
\* holding two different values, into a target that already held a component
C29_Witness ==
  /\ call.op = "migrate"
  /\ ret = "Ok"
  /\ call.row < Len(columns[call.source].vec)
  /\ Len(columns[call.target].vec) >= 2
  /\ columns[call.target].vec[Len(columns[call.target].vec)]
       # columns[call.source].vec[call.row + 1]

\* the entity in the last row of the archetype a live entity is located in
LastEntityWith(w, e) ==
  ArchetypeAt(w, LocationOf(w, e).archetype).entities[
    Len(ArchetypeAt(w, LocationOf(w, e).archetype).entities)]

\* C30: World::kill of an entity at row r that is not the last row of its
\* archetype updates the registry of the entity that swap-remove moved into
\* row r, so that this entity's location becomes (archetype, r).
C30_KillUpdatesMoved ==
  [][(/\ call'.op = "kill"
      /\ call'.entity \in LiveIds(World)
      /\ LastEntityWith(World, call'.entity) # call'.entity)
       => /\ LastEntityWith(World, call'.entity) \in LiveIds(World')
          /\ LocationOf(World', LastEntityWith(World, call'.entity))
               = LocationOf(World, call'.entity)
    ]_vars

\* the registry places e exactly where an archetype of schema tb holds it
PlacedInSchema(w, e, tb) ==
  /\ e \in LiveIds(w)
  /\ LocationOf(w, e).archetype \in ArchetypeIds(w)
  /\ types(ArchetypeAt(w, LocationOf(w, e).archetype)) = tb
  /\ LocationOf(w, e).row < Len(ArchetypeAt(w, LocationOf(w, e).archetype).entities)
  /\ ArchetypeAt(w, LocationOf(w, e).archetype).entities[LocationOf(w, e).row + 1] = e

\* C31: after a valid World::migrate(id, op) of a live entity the call has
\* returned Ok, the registry location of id is (target archetype, new row),
\* and the entity that was moved into the vacated source row is located at
\* (source archetype, old row); this holds also when id occupied the last row
\* of the source archetype, where the moved entity is id itself.
C31_MigrateLocations ==
  [][(call'.op = "migrate" /\ GoodMigration(World, call'.entity, call'.migration))
       => /\ ret' = "Ok"
          /\ PlacedInSchema(World', call'.entity,
                            TargetBundle(ArchetypeAt(World, LocationOf(World, call'.entity).archetype),
                                         call'.migration))
          /\ LastEntityWith(World, call'.entity) # call'.entity
               => /\ LastEntityWith(World, call'.entity) \in LiveIds(World')
                  /\ LocationOf(World', LastEntityWith(World, call'.entity))
                       = LocationOf(World, call'.entity)
    ]_vars

\* C32: World::kill removes the entity's row from its archetype before it
\* frees the id in the registry: when the row removal fails (the call
\* panics), the registry still describes the entity as live at its location.
C32_KillRemovesBeforeFree ==
  [][(call'.op = "kill" /\ call'.entity \in LiveIds(World) /\ ret' = "Panic")
       => /\ call'.entity \in LiveIds(World')
          /\ LocationOf(World', call'.entity) = LocationOf(World, call'.entity)
    ]_vars

\* the entity in the last row of an archetype that has rows
LastEntity(at) == at.entities[Len(at.entities)]

\* C33: removing row r (r < len) from an archetype of the world, by
\* Archetype::remove or migrate_to_bundle, completes without an out-of-range
\* access and returns the entity that was at row len-1 before the removal.
C33_RemoveReturnsLast ==
  ~panicked =>
    \A a \in ArchetypeIds(World) :
      \A row \in 0..(Len(ArchetypeAt(World, a).entities) - 1) :
        \A torder \in Orders(Types) :
          /\ ~remove(ArchetypeAt(World, a), row, torder).panic
          /\ remove(ArchetypeAt(World, a), row, torder).entity = LastEntity(ArchetypeAt(World, a))
          /\ ~migrate_to_bundle(ArchetypeAt(World, a), row, torder).panic
          /\ migrate_to_bundle(ArchetypeAt(World, a), row, torder).entity
               = LastEntity(ArchetypeAt(World, a))

\* C34: World::migrate on a live entity with a valid Add or Remove returns Ok
\* without aborting for every pair of source and target archetypes, also when
\* the target archetype already exists and has a lower archetype index than
\* the source.
C34_ValidMigrateReturnsOk ==
  [][(call'.op = "migrate" /\ GoodMigration(World, call'.entity, call'.migration))
       => ret' = "Ok"
    ]_vars

\* the number of rows over a sequence of archetypes
RECURSIVE TotalRows(_)
TotalRows(ats) ==
  IF ats = <<>> THEN 0 ELSE Len(Head(ats).entities) + TotalRows(Tail(ats))

\* C35: in every reachable state each row of each archetype holds a live
\* EntityId whose registry location is exactly that (archetype, row), so the
\* rows hold distinct ids; the total number of rows over all archetypes equals
\* the number of live entities, and no killed entity remains in any entities
\* vector.
C35_RowsAreLiveEntities ==
  /\ \A a \in ArchetypeIds(World) :
       \A r \in DOMAIN ArchetypeAt(World, a).entities :
         /\ ArchetypeAt(World, a).entities[r] \in LiveIds(World)
         /\ LocationOf(World, ArchetypeAt(World, a).entities[r]) = Location(a, r - 1)
  /\ TotalRows(archetypes) = Cardinality(LiveIds(World))

\* C36: when a column migrate(row, target) fails because the target column
\* has a different component type, neither column is changed: the component
\* at row is not removed from the source and not lost.
C36_FailedMigrateChangesNothing ==
  [][(call'.op = "migrate" /\ ret' = "Err")
       => /\ columns[call'.source].ty # columns[call'.target].ty
          /\ columns' = columns
    ]_vars

\* the borrows held after the first k events of a log: (archetype, field)
\* pairs acquired and not yet released
HeldAfter(log, k) ==
  {<<log[i].archetype, log[i].field>> :
     i \in {j \in 1..k : /\ log[j].ev = "acquire"
                          /\ ~\E r \in (j + 1)..k :
                               /\ log[r].ev = "release"
                               /\ log[r].archetype = log[j].archetype
                               /\ log[r].field = log[j].field}}

\* C37: during run_system the column borrows of at most one archetype are held
\* at a time, within an archetype no shared borrow is acquired after a mutable
\* one, each archetype's borrows are released before the next archetype is
\* processed, and no borrow remains held after run_system returns.
C37_BorrowsPerArchetype ==
  call.op = "run_system" =>
    /\ \A k \in 0..Len(borrows) :
         Cardinality({h[1] : h \in HeldAfter(borrows, k)}) <= 1
    /\ \A i, j \in DOMAIN borrows :
         (/\ i < j
          /\ borrows[i].ev = "acquire" /\ borrows[j].ev = "acquire"
          /\ borrows[i].archetype = borrows[j].archetype
          /\ borrows[i].mut) => borrows[j].mut
    /\ \A i, j \in DOMAIN borrows :
         (/\ i < j
          /\ borrows[i].ev = "release" /\ borrows[j].ev = "acquire")
           => borrows[i].archetype # borrows[j].archetype
    /\ ret = "Ok" => HeldAfter(borrows, Len(borrows)) = {}

\* a run_system has returned after borrowing two columns in each of two
\* archetypes
C37_Witness ==
  /\ call.op = "run_system"
  /\ ret = "Ok"
  /\ Len(call.query) = 2
  /\ Cardinality({borrows[i].archetype : i \in DOMAIN borrows}) >= 2
  /\ Len(visited) >= 2

\* C38: in every state reachable through get_new_id, get_new_ids,
\* set_location and free, the freed list holds no index twice, holds only
\* indices below count, and every index on it has no location; count equals
\* the length of the slot array.
C38_FreedListSound ==
  /\ \A i, j \in DOMAIN entities.freed :
       entities.freed[i] = entities.freed[j] => i = j
  /\ \A i \in DOMAIN entities.freed :
       /\ entities.freed[i] < entities.count
       /\ entities.freed[i] < Len(entities.entities)
       /\ entities.entities[entities.freed[i] + 1].location = None
  /\ entities.count = Len(entities.entities)

====
